---- MODULE Spec2Model ----
(***************************************************************************)
(* Diagram support of the transitions state-machine library:               *)
(* transitions/extensions/diagrams.py.  The model covers the graph         *)
(* registry of GraphMachine (model_graphs), the styling a transition       *)
(* applies around its state change (TransitionGraphSupport._change_state)  *)
(* and the flattening of the machine markup (BaseGraph._get_elements).     *)
(* The graph backends, the core Machine and the markup provider are not    *)
(* part of diagrams.py; they are modelled from the design document.        *)
(***************************************************************************)
EXTENDS Integers, Sequences, FiniteSets, TLC

VARIABLES
    markup,        \* machine.get_markup_config(): root scope of states and transitions
    state_form,    \* "name": states are strings, "obj": states are Enum members (have .name)
    models,        \* machine.models, in registration order
    attrs,         \* per model object: its attributes (state, get_graph, triggers bound)
    model_graphs,  \* machine.model_graphs: id(model) -> Graph
    pc,            \* the transition whose _change_state is running, or idle
    raised,        \* the exception the last call ended with, or "none"
    fl_in,         \* flattening harness: the markup handed to _get_elements
    fl_out,        \* flattening harness: what _get_elements returned
    definition,    \* drawing harness: states, transitions and keywords of GraphMachine(...)
    drawn,          \* drawing harness: the graph generated for that machine
    constructed    \* the class attribute GraphMachine.machine_attributes and the machines constructed

vars == <<markup, state_form, models, attrs, model_graphs, pc, raised, fl_in, fl_out, definition, drawn, constructed>>

(***************************************************************************)
(* Bounds of the model.                                                    *)
(***************************************************************************)
MaxAdded == 1              \* add_states and add_transition calls explored, together
MaxDeclared == 4           \* root transitions of a markup handed to the flattening alone
MaxMachines == 3           \* machines constructed one after the other
MaxDrawn == 2              \* transitions declared on a machine that is drawn alone

(***************************************************************************)
(* Values.                                                                 *)
(***************************************************************************)
\* A dict key that is absent (a transition without "dest", a state without "initial").
NoKey == "<absent>"

\* NestedState.separator
separator == "_"

\* Model objects.  "g" is an object whose class defines its own get_graph method
\* (GraphModel of test_model_method_collision).  
Models == {"m1", "m2", "g", "s"}
OwnGetGraph == {"g"}
\* The model whose state attribute cannot be read (getattr raises AttributeError).
Stateless == {"s"}

\* A markup transition: a dict with "trigger", "source" and, unless internal, "dest".
Tran(trigger, source, dest) == [trigger |-> trigger, source |-> source, dest |-> dest]

\* The "initial" entry of a markup state: absent, a child name, an Enum member
\* (has .name), a list of child names (parallel state), or something that is
\* neither (a number, say).
NoInitial == [kind |-> "absent", name |-> NoKey, names |-> <<>>]
InitialName(n) == [kind |-> "name", name |-> n, names |-> <<>>]
InitialObj(n) == [kind |-> "obj", name |-> n, names |-> <<>>]
InitialList(ns) == [kind |-> "list", name |-> NoKey, names |-> ns]
InitialBad == [kind |-> "bad", name |-> NoKey, names |-> <<>>]

\* A markup scope: the root (name absent, its states under "states") or a state
\* (its sub-states under "children").
State(name, children, initial, transitions) ==
    [name |-> name, children |-> children, states |-> <<>>,
     initial |-> initial, transitions |-> transitions]
Leaf(name) == State(name, <<>>, NoInitial, <<>>)
Root(states, transitions) ==
    [name |-> NoKey, children |-> <<>>, states |-> states,
     initial |-> NoInitial, transitions |-> transitions]

\* The value of a model's state attribute: a state name, an Enum member, or a
\* (nested) list of these.
SName(n) == [kind |-> "name", name |-> n, elems |-> <<>>]
SObj(n) == [kind |-> "obj", name |-> n, elems |-> <<>>]
SList(es) == [kind |-> "list", name |-> NoKey, elems |-> es]

(***************************************************************************)
(* transitions.core.listify and diagrams._flatten.                         *)
(***************************************************************************)
listify(v) == IF v.kind = "list" THEN v.elems ELSE <<v>>

RECURSIVE _flatten(_)
_flatten(item) ==
    IF Len(item) = 0 THEN <<>>
    ELSE LET elem == Head(item)
         IN  (IF elem.kind = "list" THEN _flatten(elem.elems) ELSE <<elem>>)
             \o _flatten(Tail(item))

(***************************************************************************)
(* BaseGraph._get_elements: breadth-first flattening of the markup.        *)
(***************************************************************************)
RECURSIVE Join(_)
Join(path) ==
    IF Len(path) = 0 THEN ""
    ELSE IF Len(path) = 1 THEN path[1]
    ELSE path[1] \o separator \o Join(Tail(path))

\* tran = transition: the name stands for the dict of the markup itself.
copy_copy_same_object(dict) == [object |-> "same", items |-> dict]

\* copy.copy(transition): another dict with the same items.
copy_copy(dict) == [object |-> "copy", items |-> dict]

\* The nested branch of the loop: tran = copy.copy(transition), then the
\* assignments to tran["source"] and, if present, tran["dest"].  emitted is tran
\* after them, original the dict of the markup after them.
NestedTransition(prefix, transition) ==
    LET tran == copy_copy(transition)
        assigned == [tran.items EXCEPT
                       !.source = Join(prefix \o <<tran.items.source>>),
                       !.dest = IF tran.items.dest # NoKey
                                THEN Join(prefix \o <<tran.items.dest>>)
                                ELSE NoKey]
    IN  [emitted |-> assigned,
         original |-> IF tran.object = "same" THEN assigned ELSE transition]

\* The loop over the transitions of a scope leaving dest as it was declared.
RECURSIVE ScopeTransitions_dest_as_declared(_, _, _)
ScopeTransitions_dest_as_declared(prefix, trs, acc) ==
    IF Len(trs) = 0 \/ acc.err # "none" THEN acc
    ELSE LET transition == Head(trs)
         IN  IF prefix # <<>> /\ transition.source = NoKey
             THEN [acc EXCEPT !.err = "KeyError"]
             ELSE ScopeTransitions_dest_as_declared(prefix, Tail(trs),
                      [acc EXCEPT !.transitions = Append(@,
                          IF prefix # <<>>
                          THEN [transition EXCEPT
                                  !.source = Join(prefix \o <<transition.source>>)]
                          ELSE transition)])

\* for transition in scope.get("transitions", []): ...
\* acc = [states, transitions, queue, err]
RECURSIVE ScopeTransitions(_, _, _)
ScopeTransitions(prefix, trs, acc) ==
    IF Len(trs) = 0 \/ acc.err # "none" THEN acc
    ELSE LET transition == Head(trs)
         IN  IF prefix # <<>>
             THEN IF transition.source = NoKey
                  THEN [acc EXCEPT !.err = "KeyError"]
                  ELSE LET tran == NestedTransition(prefix, transition).emitted
                       IN  ScopeTransitions(prefix, Tail(trs),
                               [acc EXCEPT !.transitions = Append(@, tran)])
             ELSE ScopeTransitions(prefix, Tail(trs),
                      [acc EXCEPT !.transitions = Append(@, transition)])

\* for state in scope.get("children", []) + scope.get("states", []): ...
RECURSIVE ScopeStates(_, _, _)
ScopeStates(prefix, sts, acc) ==
    IF Len(sts) = 0 \/ acc.err # "none" THEN acc
    ELSE LET state == Head(sts)
             a1 == IF prefix = <<>>
                   THEN [acc EXCEPT !.states = Append(@, state)]
                   ELSE acc
             ini == state.initial
             \* the anchor transition of a state with a non-list initial
             a2 == IF ini.kind \in {"absent", "list"} THEN a1
                   ELSE IF state.name = NoKey THEN [a1 EXCEPT !.err = "KeyError"]
                   ELSE IF ini.kind = "bad" THEN [a1 EXCEPT !.err = "TypeError"]
                   ELSE [a1 EXCEPT !.transitions = Append(@,
                            Tran("",
                                 Join(prefix \o <<state.name>>) \o "_anchor",
                                 Join(prefix \o <<state.name, ini.name>>)))]
             a3 == IF a2.err # "none" \/ Len(state.children) = 0 THEN a2
                   ELSE IF state.name = NoKey THEN [a2 EXCEPT !.err = "KeyError"]
                   ELSE [a2 EXCEPT !.queue = Append(@,
                            [prefix |-> prefix \o <<state.name>>, scope |-> state])]
         IN  ScopeStates(prefix, Tail(sts), a3)

\* while queue: prefix, scope = queue.pop(0) ...
RECURSIVE WalkQueue(_)
WalkQueue(acc) ==
    IF Len(acc.queue) = 0 \/ acc.err # "none" THEN acc
    ELSE LET head == Head(acc.queue)
             a0 == [acc EXCEPT !.queue = Tail(@)]
             a1 == ScopeTransitions(head.prefix, head.scope.transitions, a0)
             a2 == ScopeStates(head.prefix,
                               head.scope.children \o head.scope.states, a1)
         IN  WalkQueue(a2)

\* A list of transitions with one entry kept per (source, dest) pair.
RECURSIVE MergeEdges(_, _)
MergeEdges(trs, acc) ==
    IF Len(trs) = 0 THEN acc
    ELSE MergeEdges(Tail(trs),
             IF \E i \in DOMAIN acc : /\ acc[i].source = Head(trs).source
                                      /\ acc[i].dest = Head(trs).dest
             THEN acc ELSE Append(acc, Head(trs)))

\* _get_elements collapsing the transitions that share source and dest.
_get_elements_merged(mk) ==
    LET r == WalkQueue([states |-> <<>>, transitions |-> <<>>,
                        queue |-> <<[prefix |-> <<>>, scope |-> mk]>>,
                        err |-> "none"])
    IN  [states |-> r.states, transitions |-> MergeEdges(r.transitions, <<>>),
         err |-> r.err]

\* _get_elements without the anchor transitions.
_get_elements_no_anchor(mk) ==
    LET r == WalkQueue([states |-> <<>>, transitions |-> <<>>,
                        queue |-> <<[prefix |-> <<>>, scope |-> mk]>>,
                        err |-> "none"])
    IN  [states |-> r.states,
         transitions |-> SelectSeq(r.transitions, LAMBDA t : t.trigger # ""),
         err |-> r.err]

\* The markup as the walk leaves it: the dicts of the nested transitions after
\* the assignments of the loop (a transition without source is not assigned to).
RECURSIVE MarkupAfter(_, _)
MarkupAfter(prefix, scope) ==
    [scope EXCEPT
       !.transitions = [i \in DOMAIN @ |->
                           IF prefix = <<>> \/ @[i].source = NoKey THEN @[i]
                           ELSE NestedTransition(prefix, @[i]).original],
       !.children = [i \in DOMAIN @ |-> MarkupAfter(prefix \o <<@[i].name>>, @[i])],
       !.states = [i \in DOMAIN @ |-> MarkupAfter(prefix \o <<@[i].name>>, @[i])]]

\* Returns the states and transitions collected; err is "KeyError" when the walk
\* was cut short by a missing key (logged, the partial lists are returned) and
\* "TypeError" when the exception leaves _get_elements.
_get_elements(mk) ==
    LET r == WalkQueue([states |-> <<>>, transitions |-> <<>>,
                        queue |-> <<[prefix |-> <<>>, scope |-> mk]>>,
                        err |-> "none"])
    IN  [states |-> r.states, transitions |-> r.transitions, err |-> r.err]

(***************************************************************************)
(* The Graph class of the backends (diagrams_graphviz, diagrams_pygraphviz).*)
(* BaseGraph.__init__ calls generate(), which reads the machine markup; the *)
(* style overlay is owned by the Graph instance.                          *)
(***************************************************************************)
Graph(mk) ==
    LET el == _get_elements(mk)
    IN  [states |-> el.states, transitions |-> el.transitions,
         node_style |-> {}, edge_style |-> {}]

\* Graph.reset_styling: every node and edge back to the default class.
reset_styling(g) == [g EXCEPT !.node_style = {}, !.edge_style = {}]

\* Graph.set_node_style: one style class per node, the last one set wins.
set_node_style(g, state, style) ==
    [g EXCEPT !.node_style = {p \in @ : p[1] # state} \cup {<<state, style>>}]

\* Graph.set_previous_transition: the edge and both of its endpoints.
set_previous_transition(g, src, dst) ==
    set_node_style(
        set_node_style([g EXCEPT !.edge_style = @ \cup {<<src, dst>>}],
                       src, "previous"),
        dst, "previous")

\* The style class of a node in a graph's overlay ("" is the default class).
StyleOf(g, n) ==
    IF \E p \in g.node_style : p[1] = n
    THEN (CHOOSE p \in g.node_style : p[1] = n)[2]
    ELSE ""

NodesStyled(g, style) == {p[1] : p \in {q \in g.node_style : q[2] = style}}

\* Qualified names of the states of a list of markup states, children included.
RECURSIVE StateNames(_, _)
StateNames(prefix, sts) ==
    IF Len(sts) = 0 THEN {}
    ELSE LET st == Head(sts)
         IN  {Join(prefix \o <<st.name>>)}
             \cup StateNames(prefix \o <<st.name>>, st.children)
             \cup StateNames(prefix, Tail(sts))

Range(seq) == {seq[i] : i \in DOMAIN seq}

Endpoints(trs) ==
    {t.source : t \in Range(trs)} \cup {t.dest : t \in {u \in Range(trs) : u.dest # NoKey}}

\* Names of the states a state value stands for.
ActiveNames(value) == {e.name : e \in Range(_flatten(listify(value)))}

\* Graph.get_graph(roi_state=None): all nodes, all edges.
FullView(g) ==
    [nodes |-> StateNames(<<>>, g.states) \cup Endpoints(g.transitions),
     edges |-> g.transitions]

\* Graph.get_graph(roi_state=...): the active states, the edges touching them
\* with their opposite endpoints, and the anchor edge of an active state.
Touches(t, active) ==
    \/ t.source \in active
    \/ t.dest # NoKey /\ t.dest \in active
    \/ t.trigger = "" /\ \E s \in active : t.source = s \o "_anchor"

RoiView(g, roi_state) ==
    LET active == ActiveNames(roi_state)
        edges == SelectSeq(g.transitions, LAMBDA t : Touches(t, active))
    IN  [nodes |-> active \cup Endpoints(edges), edges |-> edges]

(***************************************************************************)
(* The core machine: entering a state, registering a model, adding states  *)
(* and transitions to the machine (and so to its markup).                 *)
(***************************************************************************)
NoState == [kind |-> "absent", name |-> NoKey, elems |-> <<>>]

StateLeaf(form, n) == IF form = "obj" THEN SObj(n) ELSE SName(n)

\* The markup state with a qualified name, searched below prefix.
RECURSIVE FindState(_, _, _)
FindState(prefix, sts, qname) ==
    IF Len(sts) = 0 THEN Leaf(NoKey)
    ELSE LET st == Head(sts)
             below == FindState(prefix \o <<st.name>>, st.children, qname)
         IN  IF Join(prefix \o <<st.name>>) = qname THEN st
             ELSE IF below.name # NoKey THEN below
             ELSE FindState(prefix, Tail(sts), qname)

\* The value of the state attribute once the state qname is entered: the state,
\* its initial child, or the list of the children of a parallel state.
RECURSIVE EnterValue(_, _, _)
EnterValue(mk, form, qname) ==
    LET st == FindState(<<>>, mk.states, qname)
    IN  IF st.initial.kind = "name"
        THEN EnterValue(mk, form, qname \o separator \o st.initial.name)
        ELSE IF st.initial.kind = "list"
        THEN SList([i \in DOMAIN st.initial.names |->
                       EnterValue(mk, form, qname \o separator \o st.initial.names[i])])
        ELSE StateLeaf(form, qname)

TopStateNames(mk) == {mk.states[i].name : i \in DOMAIN mk.states}

InSeq(x, seq) == \E i \in DOMAIN seq : seq[i] = x

\* Machine.add_model: a model not yet in machine.models gets the triggers, is put
\* in the initial state and is appended to machine.models.
RECURSIVE Machine_add_model(_, _, _)
Machine_add_model(w, ms, initial_value) ==
    IF Len(ms) = 0 THEN w
    ELSE LET mod == Head(ms)
         IN  Machine_add_model(
                 IF InSeq(mod, w.models) THEN w
                 ELSE [w EXCEPT !.attrs[mod].bound = TRUE,
                                !.attrs[mod].state = IF mod \in Stateless THEN NoState
                                                     ELSE initial_value,
                                !.models = Append(@, mod)],
                 Tail(ms), initial_value)

\* Machine.add_states / Machine.add_transition, as the markup shows them.
Machine_add_states(mk, name) == [mk EXCEPT !.states = Append(@, Leaf(name))]
Machine_add_transition(mk, trigger, source, dest) ==
    [mk EXCEPT !.transitions = Append(@, Tran(trigger, source, dest))]

(***************************************************************************)
(* GraphMachine: the registry model_graphs and the calls that fill it.     *)
(***************************************************************************)
\* A registry keyed by the machine instead of the model.
id_of_machine(model) == "machine"

\* id(model), the key of model_graphs.
id(model) == model

Put(f, k, v) == [x \in DOMAIN f \cup {k} |-> IF x = k THEN v ELSE f[x]]

\* _get_graph, force_new branch: for state in _flatten(listify(getattr(model, attr))):
\*     grph.set_node_style(self.dest if hasattr(state, "name") else state, "active")
\* self is the machine, which has no attribute dest: the AttributeError ends the
\* loop and is logged, as is the one of a model without the state attribute.
RECURSIVE ForceNewActive(_, _)
ForceNewActive(grph, leaves) ==
    IF Len(leaves) = 0 THEN grph
    ELSE LET state == Head(leaves)
         IN  IF state.kind = "absent" \/ state.kind = "obj" THEN grph
             ELSE ForceNewActive(set_node_style(grph, state.name, "active"),
                                 Tail(leaves))

\* Whether _get_graph builds a new Graph for the model.
Builds(graphs, model, force_new) == force_new \/ id(model) \notin DOMAIN graphs

\* _get_graph building a new Graph on every call, forced or not.
_get_graph_always_new(graphs, mk, at, model, force_new) ==
    Put(graphs, id(model),
        ForceNewActive(Graph(mk), _flatten(listify(at[model].state))))

\* GraphMachine._get_graph up to the lookup of the entry: model_graphs afterwards.
_get_graph(graphs, mk, at, model, force_new) ==
    IF Builds(graphs, model, force_new)
    THEN Put(graphs, id(model),
             ForceNewActive(Graph(mk), _flatten(listify(at[model].state))))
    ELSE graphs

\* Graph.get_graph(title, roi_state): the graph object it returns to the caller
\* (view) and the Graph instance as the call leaves it (graph).
NoRoi == [kind |-> "none", name |-> NoKey, elems |-> <<>>]
Graph_get_graph(g, roi_state) ==
    [view |-> IF roi_state.kind = "none" THEN FullView(g) ELSE RoiView(g, roi_state),
     graph |-> g]

\* The last line of _get_graph keeping the filtered graph as the model's Graph.
_get_graph_return_keeps_roi(graphs, at, model, show_roi) ==
    LET g == graphs[id(model)]
        r == Graph_get_graph(g, IF show_roi THEN at[model].state ELSE NoRoi)
    IN  [view |-> r.view,
         graph |-> IF show_roi THEN [g EXCEPT !.transitions = r.view.edges] ELSE g]

\* The last line of _get_graph handing no roi_state to the Graph.
_get_graph_return_no_roi(graphs, at, model, show_roi) ==
    Graph_get_graph(graphs[id(model)], NoRoi)

\* GraphMachine._get_graph, its last line:
\* grph.get_graph(title=title, roi_state=getattr(model, attr) if show_roi else None)
_get_graph_return(graphs, at, model, show_roi) ==
    Graph_get_graph(graphs[id(model)], IF show_roi THEN at[model].state ELSE NoRoi)

\* add_states and add_transition leaving the graphs of the models as they are.
CallGetGraph_no_rebuild(w, mk, model, own_raises) ==
    [w EXCEPT !.rebuilt = @ \cup {model}]

\* model.get_graph(force_new=True) as add_states and add_transition call it on
\* each model of machine.models: the partial bound by add_model, the model's own
\* get_graph (which may or may not accept the keyword), or no such attribute.
CallGetGraph(w, mk, model, own_raises) ==
    IF w.attrs[model].get_graph = "bound"
    THEN [w EXCEPT !.graphs = _get_graph(w.graphs, mk, w.attrs, model, TRUE),
                   !.rebuilt = @ \cup {model}]
    ELSE IF w.attrs[model].get_graph = "own"
    THEN IF own_raises THEN [w EXCEPT !.err = "TypeError"] ELSE w
    ELSE [w EXCEPT !.err = "AttributeError"]

\* for model in self.models: model.get_graph(force_new=True)
RECURSIVE RebuildAll(_, _, _, _)
RebuildAll(w, mk, ms, own_raises) ==
    IF Len(ms) = 0 \/ w.err # "none" THEN w
    ELSE RebuildAll(CallGetGraph(w, mk, Head(ms), own_raises), mk, Tail(ms), own_raises)

\* GraphMachine.add_model, the loop after super().add_model(models, initial).
RECURSIVE BindGetGraph(_, _, _)
BindGetGraph(w, mk, ms) ==
    IF Len(ms) = 0 \/ w.err # "none" THEN w
    ELSE LET mod == Head(ms)
         IN  IF w.attrs[mod].get_graph # "none"
             THEN [w EXCEPT !.err = "AttributeError", !.failed = mod]
             ELSE LET w1 == [w EXCEPT !.attrs[mod].get_graph = "bound"]
                      w2 == [w1 EXCEPT
                               !.graphs = _get_graph(w1.graphs, mk, w1.attrs, mod, TRUE),
                               !.rebuilt = @ \cup {mod}]
                  IN  BindGetGraph(w2, mk, Tail(ms))

GraphMachine_add_model(w, mk, ms, initial_value) ==
    BindGetGraph(Machine_add_model(w, ms, initial_value), mk, ms)

\* The attributes of GraphMachine instances that are left out of a pickle.
_pickle_blacklist == {"model_graphs"}

\* self.__dict__ of the machine.
MachineDict ==
    [models |-> models, markup |-> markup, state_form |-> state_form,
     model_graphs |-> model_graphs]

\* __getstate__ handing out the whole __dict__.
__getstate___whole(dict) == dict

\* {k: v for k, v in self.__dict__.items() if k not in self._pickle_blacklist}
__getstate__(dict) == [k \in DOMAIN dict \ _pickle_blacklist |-> dict[k]]

\* for model in self.models: _ = self._get_graph(model)
RECURSIVE InitGraphs(_, _, _, _)
InitGraphs(graphs, mk, at, ms) ==
    IF Len(ms) = 0 THEN graphs
    ELSE InitGraphs(_get_graph(graphs, mk, at, Head(ms), FALSE), mk, at, Tail(ms))

\* __setstate__: self.__dict__.update(state); self.model_graphs = {}; then a
\* graph for every model. The __dict__ it leaves.
__setstate__(state, at) ==
    LET dict == Put(state, "model_graphs", <<>>)
    IN  [dict EXCEPT !.model_graphs = InitGraphs(<<>>, dict.markup, at, dict.models)]

World ==
    [models |-> models, attrs |-> attrs, graphs |-> model_graphs,
     err |-> "none", failed |-> NoKey, rebuilt |-> {}]

(***************************************************************************)
(* TransitionGraphSupport._change_state.                                   *)
(***************************************************************************)
\* _change_state without the reset_styling call.
_change_state_before_no_reset(graph, source, dest) ==
    set_previous_transition(graph, source, dest)

\* Before the state change: reset_styling, set_previous_transition.
_change_state_before(graph, source, dest) ==
    set_previous_transition(reset_styling(graph), source, dest)

\* After the state change: every state of the model is styled active.
RECURSIVE _change_state_after(_, _, _)
_change_state_after(graph, leaves, dest) ==
    IF Len(leaves) = 0 THEN graph
    ELSE LET state == Head(leaves)
         IN  _change_state_after(
                 set_node_style(graph,
                                IF state.kind = "obj" THEN dest ELSE state.name,
                                "active"),
                 Tail(leaves), dest)

Idle == [model |-> NoKey, source |-> NoKey, dest |-> NoKey,
         phase |-> "idle", replaced |-> FALSE]

\* The transition in progress, with the note that a call made from one of its
\* callbacks replaced the model's Graph.
NotePc(rebuilt) ==
    IF pc.phase # "idle" /\ pc.model \in rebuilt
    THEN [pc EXCEPT !.replaced = TRUE]
    ELSE pc

(***************************************************************************)
(* The machines explored: a flat one and a hierarchical one with a         *)
(* composite state (C, initial child 1) and a parallel state (P, whose     *)
(* child x is parallel again).                                             *)
(***************************************************************************)
FlatMarkup ==
    Root(<<Leaf("A"), Leaf("B")>>,
         <<Tran("walk", "A", "B"), Tran("run", "B", "A"), Tran("jog", "B", "A"),
           Tran("stay", "A", NoKey)>>)

NestedMarkup ==
    Root(<<Leaf("A"),
           State("C", <<Leaf("1"), Leaf("2")>>, InitialName("1"),
                 <<Tran("go", "1", "2")>>),
           State("P",
                 <<State("x", <<Leaf("1"), Leaf("2")>>, InitialList(<<"1", "2">>), <<>>),
                   Leaf("y")>>,
                 InitialList(<<"x", "y">>), <<>>)>>,
         <<Tran("walk", "A", "C"), Tran("fork", "C_2", "P"), Tran("join", "P_y", "A")>>)

\* The applications explored: a machine definition and the model objects at hand.
Applications ==
    {[markup |-> FlatMarkup, objects |-> {"m1", "m2"}],
     [markup |-> FlatMarkup, objects |-> {"m1", "g"}],
     [markup |-> NestedMarkup, objects |-> {"m1"}],
     [markup |-> FlatMarkup, objects |-> {"s"}]}

\* The states and triggers add_states and add_transition are called with, in turn.
AddableStateNames == <<"X", "Y", "Z", "W">>
AddableTriggers == <<"e1", "e2", "e3", "e4">>
AddedStates == Cardinality(TopStateNames(markup) \cap Range(AddableStateNames))
AddedTransitions ==
    Cardinality({i \in DOMAIN markup.transitions :
                    markup.transitions[i].trigger \in Range(AddableTriggers)})
Added == AddedStates + AddedTransitions
AddableStates == {AddableStateNames[AddedStates + 1]}

\* The model lists handed to add_model.
ModelLists ==
    {ms \in {<<"m1">>, <<"m2">>, <<"g">>, <<"s">>, <<"m1", "m2">>, <<"g", "m1">>} :
        Range(ms) \subseteq DOMAIN attrs}

\* The initial states handed to add_model: the machine's first and last state.
InitialStates(mk) == {mk.states[1].name, mk.states[Len(mk.states)].name}

\* add_transition is explored from the machine's first to its last state.
AddableSources(mk) == {mk.states[1].name}
AddableDests(mk) == {mk.states[Len(mk.states)].name}

\* GraphMachine.machine_attributes and GraphMachine.hierarchical_machine_attributes
\* as the class body defines them.
machine_attributes == [directed |-> "true", strict |-> "false", rankdir |-> "LR"]
hierarchical_machine_attributes ==
    [rankdir |-> "TB", rank |-> "source", nodesep |-> "1.5", compound |-> "true"]

\* No machine constructed yet (pygraphviz not looked for).
NoMachines ==
    [machine_attributes |-> machine_attributes, machines |-> <<>>, pygraphviz |-> FALSE]

NoElements == [states |-> <<>>, transitions |-> <<>>, err |-> "unset"]
NoDefinition == [states |-> <<>>, transitions |-> <<>>]
NotDrawn == [nodes |-> {}, edges |-> <<>>, err |-> "unset"]

\* The machine as GraphMachine(model=None, states=..., transitions=...) leaves it.
Init ==
    /\ \E app \in Applications :
          /\ markup = app.markup
          /\ attrs = [m \in app.objects |->
                        [get_graph |-> IF m \in OwnGetGraph THEN "own" ELSE "none",
                         state |-> NoState, bound |-> FALSE]]
    /\ state_form \in {"name", "obj"}
    /\ models = <<>>
    /\ model_graphs = <<>>
    /\ pc = Idle
    /\ raised = "none"
    /\ fl_in = Root(<<>>, <<>>)
    /\ fl_out = NoElements
    /\ definition = NoDefinition
    /\ drawn = NotDrawn
    /\ constructed = NoMachines

(***************************************************************************)
(* Actions.                                                                *)
(***************************************************************************)
\* machine.add_model(ms, initial)
add_model(ms, initial) ==
    /\ pc.phase = "idle"
    /\ LET w == GraphMachine_add_model(World, markup, ms,
                                       EnterValue(markup, state_form, initial))
       IN  /\ models' = w.models
           /\ attrs' = w.attrs
           /\ model_graphs' = w.graphs
           /\ raised' = w.err
    /\ UNCHANGED <<markup, state_form, pc, fl_in, fl_out, definition, drawn, constructed>>

\* machine.add_states(name), also from a callback of a running transition
add_states(name, own_raises) ==
    /\ Added < MaxAdded
    /\ name \notin TopStateNames(markup)
    /\ LET mk == Machine_add_states(markup, name)
           w == RebuildAll(World, mk, models, own_raises)
       IN  /\ markup' = mk
           /\ model_graphs' = w.graphs
           /\ pc' = NotePc(w.rebuilt)
           /\ raised' = w.err
    /\ UNCHANGED <<state_form, models, attrs, fl_in, fl_out, definition, drawn, constructed>>

\* machine.add_transition(trigger, source, dest), also from a callback
add_transition(source, dest, own_raises) ==
    /\ Added < MaxAdded
    /\ LET mk == Machine_add_transition(markup, AddableTriggers[AddedTransitions + 1],
                                        source, dest)
           w == RebuildAll(World, mk, models, own_raises)
       IN  /\ markup' = mk
           /\ model_graphs' = w.graphs
           /\ pc' = NotePc(w.rebuilt)
           /\ raised' = w.err
    /\ UNCHANGED <<state_form, models, attrs, fl_in, fl_out, definition, drawn, constructed>>

\* model.get_graph(force_new=..., show_roi=...) through the partial add_model bound.
\* The last line reads the model's state when show_roi is set, outside the try.
get_graph(model, force_new, show_roi) ==
    /\ attrs[model].get_graph = "bound"
    /\ UNCHANGED <<markup, state_form, models, attrs, fl_in, fl_out, definition, drawn, constructed>>
    /\ pc' = NotePc(IF Builds(model_graphs, model, force_new) THEN {model} ELSE {})
    /\ LET graphs == _get_graph(model_graphs, markup, attrs, model, force_new)
       IN  IF show_roi /\ attrs[model].state.kind = "absent"
           THEN /\ raised' = "AttributeError"
                /\ model_graphs' = graphs
           ELSE /\ raised' = "none"
                /\ model_graphs' = [graphs EXCEPT ![id(model)] =
                                       _get_graph_return(graphs, attrs, model, show_roi).graph]

\* The transitions a model can take: declared, with a dest, leaving one of the
\* model's current states.
Enabled(model) ==
    {t \in Range(_get_elements(markup).transitions) :
        /\ t.trigger # ""
        /\ t.dest # NoKey
        /\ t.source \in ActiveNames(attrs[model].state)}

\* A trigger of the model fires transition t: _change_state up to the state change.
trigger(model, t) ==
    /\ pc.phase = "idle"
    /\ attrs[model].bound
    /\ t \in Enabled(model)
    /\ IF id(model) \in DOMAIN model_graphs
       THEN /\ model_graphs' = [model_graphs EXCEPT
                                  ![id(model)] = _change_state_before(@, t.source, t.dest)]
            /\ pc' = [model |-> model, source |-> t.source, dest |-> t.dest,
                      phase |-> "exit", replaced |-> FALSE]
            /\ raised' = "none"
       ELSE /\ raised' = "KeyError"
            /\ UNCHANGED <<model_graphs, pc>>
    /\ UNCHANGED <<markup, state_form, models, attrs, fl_in, fl_out, definition, drawn, constructed>>

\* Transition._change_state: between the exit and the enter callbacks the model's
\* state becomes the destination.
set_state ==
    /\ pc.phase = "exit"
    /\ attrs' = [attrs EXCEPT ![pc.model].state = EnterValue(markup, state_form, pc.dest)]
    /\ pc' = [pc EXCEPT !.phase = "enter"]
    /\ raised' = "none"
    /\ UNCHANGED <<markup, state_form, models, model_graphs, fl_in, fl_out, definition, drawn, constructed>>

\* _change_state after super()._change_state returned.
change_state_end ==
    /\ pc.phase = "enter"
    /\ model_graphs' = [model_graphs EXCEPT
                          ![id(pc.model)] = _change_state_after(
                              @, _flatten(listify(attrs[pc.model].state)), pc.dest)]
    /\ pc' = Idle
    /\ raised' = "none"
    /\ UNCHANGED <<markup, state_form, models, attrs, fl_in, fl_out, definition, drawn, constructed>>

\* An exit or enter callback raises: the exception leaves _change_state.
callback_raises ==
    /\ pc.phase \in {"exit", "enter"}
    /\ pc' = Idle
    /\ raised' = "Exception"
    /\ UNCHANGED <<markup, state_form, models, attrs, model_graphs, fl_in, fl_out, definition, drawn, constructed>>

\* pickle.loads(pickle.dumps(machine)): the machine from here on is the restored
\* one, its models restored with it.
unpickle ==
    /\ pc.phase = "idle"
    /\ LET dict == __setstate__(__getstate__(MachineDict), attrs)
       IN  /\ models' = dict.models
           /\ markup' = dict.markup
           /\ state_form' = dict.state_form
           /\ model_graphs' = dict.model_graphs
    /\ raised' = "none"
    /\ UNCHANGED <<attrs, pc, fl_in, fl_out, definition, drawn, constructed>>

Next ==
    \/ \E ms \in ModelLists, initial \in InitialStates(markup) : add_model(ms, initial)
    \/ \E name \in AddableStates, own_raises \in BOOLEAN : add_states(name, own_raises)
    \/ \E source \in AddableSources(markup), dest \in AddableDests(markup),
          own_raises \in BOOLEAN : add_transition(source, dest, own_raises)
    \/ \E model \in DOMAIN attrs, force_new, show_roi \in BOOLEAN :
          get_graph(model, force_new, show_roi)
    \/ \E model \in DOMAIN attrs :
          \E t \in Enabled(model) : trigger(model, t)
    \/ set_state
    \/ change_state_end
    \/ callback_raises
    \/ unpickle

Spec == Init /\ [][Next]_vars

(***************************************************************************)
(* The flattening on its own: markups are declared transition by           *)
(* transition and handed to BaseGraph._get_elements.                       *)
(***************************************************************************)
\* The transitions declared at the root: four triggers between a and b, as in
\* test_if_multiple_edges_are_supported, and one back.
DeclaredPool ==
    {Tran("e1", "a", "b"), Tran("e2", "a", "b"), Tran("e3", "a", "b"),
     Tran("e4", "a", "b"), Tran("back", "b", "a")}

\* The state hierarchies: flat; a composite with two transitions between the same
\* children; a composite within a composite; a nested transition without source;
\* and those described below.
DeclaredShapes ==
    {<<Leaf("a"), Leaf("b")>>,
     <<State("a", <<Leaf("1"), Leaf("2")>>, InitialName("1"),
             <<Tran("go", "1", "2"), Tran("hop", "1", "2")>>),
       Leaf("b")>>,
     <<State("a",
             <<State("1", <<Leaf("x"), Leaf("y")>>, NoInitial,
                     <<Tran("in1", "x", "y"), Tran("in2", "x", "y")>>),
               Leaf("2")>>,
             NoInitial, <<Tran("go", "1", "2"), Tran("stay", "1", NoKey)>>),
       State("b", <<Leaf("1"), Leaf("2")>>, NoInitial, <<Tran("up", "1", "2")>>)>>,
     <<State("a", <<Leaf("1")>>, NoInitial,
             <<Tran("go", NoKey, "1"), Tran("hop", "1", "1")>>),
       Leaf("b")>>,
     \* default children given by name and by object, and a parallel state
     <<State("a",
             <<State("1", <<Leaf("x"), Leaf("y")>>, InitialName("x"), <<>>),
               Leaf("2")>>,
             InitialObj("1"), <<>>),
       State("b", <<Leaf("1"), Leaf("2")>>, InitialList(<<"1", "2">>), <<>>)>>,
     \* an initial that is no name
     <<State("a", <<Leaf("1")>>, InitialBad, <<Tran("go", "1", "1")>>),
       State("b", <<Leaf("1"), Leaf("2")>>, InitialName("1"), <<Tran("up", "1", "2")>>)>>,
     \* a state without name
     <<Leaf("a"),
       State(NoKey, <<Leaf("1")>>, NoInitial, <<>>),
       State("b", <<Leaf("1"), Leaf("2")>>, InitialName("1"), <<Tran("up", "1", "2")>>)>>}

InitFlat ==
    /\ markup = FlatMarkup
    /\ attrs = [m \in {} |-> [get_graph |-> "none", state |-> NoState, bound |-> FALSE]]
    /\ state_form = "name"
    /\ models = <<>>
    /\ model_graphs = <<>>
    /\ pc = Idle
    /\ raised = "none"
    /\ \E sts \in DeclaredShapes : fl_in = Root(sts, <<>>)
    /\ fl_out = NoElements
    /\ definition = NoDefinition
    /\ drawn = NotDrawn
    /\ constructed = NoMachines

\* One more transition is declared at the root of the markup.
Declare(t) ==
    /\ Len(fl_in.transitions) < MaxDeclared
    /\ fl_in' = [fl_in EXCEPT !.transitions = Append(@, t)]
    /\ fl_out' = NoElements
    /\ UNCHANGED <<markup, state_form, models, attrs, model_graphs, pc, raised,
                   definition, drawn, constructed>>

\* states, transitions = self._get_elements()
Flatten ==
    /\ fl_out' = _get_elements(fl_in)
    /\ fl_in' = MarkupAfter(<<>>, fl_in)
    /\ UNCHANGED <<markup, state_form, models, attrs, model_graphs, pc, raised,
                   definition, drawn, constructed>>

NextFlat ==
    \/ \E t \in DeclaredPool : Declare(t)
    \/ Flatten

SpecFlat == InitFlat /\ [][NextFlat]_vars

(***************************************************************************)
(* The drawing on its own: a machine is declared, GraphMachine(...) is     *)
(* constructed with its keywords and its graph is generated.  The events   *)
(* of the core machine, the markup provider and the generation of nodes    *)
(* and edges by the backend are not part of diagrams.py.                   *)
(***************************************************************************)
\* Qualified names of the states of a machine in declaration order, children
\* after their parent.
RECURSIVE StateNameSeq(_, _)
StateNameSeq(prefix, sts) ==
    IF Len(sts) = 0 THEN <<>>
    ELSE <<Join(prefix \o <<Head(sts).name>>)>>
             \o StateNameSeq(prefix \o <<Head(sts).name>>, Head(sts).children)
             \o StateNameSeq(prefix, Tail(sts))

\* Machine.add_transition: a wildcard source stands for every state.
ExpandSource(t, names) ==
    IF t.source = "*" THEN [i \in DOMAIN names |-> [t EXCEPT !.source = names[i]]]
    ELSE <<t>>

RECURSIVE ExpandAll(_, _)
ExpandAll(trs, names) ==
    IF Len(trs) = 0 THEN <<>>
    ELSE ExpandSource(Head(trs), names) \o ExpandAll(Tail(trs), names)

\* The transitions the machine generates on its own when auto_transitions is set:
\* to_<state> from every state to <state>.
AutoTransitions(names) ==
    [k \in 1..(Len(names) * Len(names)) |->
        LET d == names[((k - 1) \div Len(names)) + 1]
            s == names[((k - 1) % Len(names)) + 1]
        IN  Tran("to_" \o d, s, d)]

\* GraphMachine.__init__ leaving show_auto_transitions aside.
GraphMachine_init_ignores_show(kwargs) ==
    [k \in {"auto_transitions_markup"} |->
        "auto_transitions_markup" \in DOMAIN kwargs /\ kwargs.auto_transitions_markup]

\* GraphMachine.__init__, the keywords it hands on to MarkupMachine.__init__:
\* kwargs["auto_transitions_markup"] = kwargs.get("auto_transitions_markup", False)
\*                                     or kwargs.pop("show_auto_transitions", False)
\* show_auto_transitions is popped only when the first operand is false.
GraphMachine_init(kwargs) ==
    IF "auto_transitions_markup" \in DOMAIN kwargs /\ kwargs.auto_transitions_markup
    THEN kwargs
    ELSE [k \in {"auto_transitions_markup"} |->
             "show_auto_transitions" \in DOMAIN kwargs /\ kwargs.show_auto_transitions]

\* MarkupMachine.get_markup_config: the states and the transitions of the
\* machine, the generated ones only when auto_transitions_markup is set.
get_markup_config(def, auto_transitions_markup) ==
    LET names == StateNameSeq(<<>>, def.states)
    IN  Root(def.states,
             (IF def.auto_transitions /\ auto_transitions_markup
              THEN AutoTransitions(names) ELSE <<>>)
                 \o ExpandAll(def.transitions, names))

\* " & ".join(items)
RECURSIVE JoinWith(_, _)
JoinWith(sep, items) ==
    IF Len(items) = 0 THEN ""
    ELSE IF Len(items) = 1 THEN items[1]
    ELSE items[1] \o sep \o JoinWith(sep, Tail(items))

\* tran.get(key, [])
GetList(tran, key) == IF key \in DOMAIN tran THEN tran[key] ELSE <<>>

\* _transition_label showing the conditions whatever show_conditions says.
_transition_label_conditions_always(tran, show_conditions) ==
    LET edge_label == <<IF "label" \in DOMAIN tran THEN tran.label ELSE tran.trigger>>
                          \o (IF tran.dest = NoKey THEN <<" [internal]">> ELSE <<>>)
    IN  IF ({"conditions", "unless"} \cap DOMAIN tran) # {}
        THEN edge_label
                 \o <<" [",
                      JoinWith(" & ",
                               GetList(tran, "conditions")
                                   \o [i \in DOMAIN GetList(tran, "unless") |->
                                          "!" \o GetList(tran, "unless")[i]]),
                      "]">>
        ELSE edge_label

\* _transition_label marking an internal transition again when it appends the
\* conditions.
_transition_label_internal_again(tran, show_conditions) ==
    LET edge_label == <<IF "label" \in DOMAIN tran THEN tran.label ELSE tran.trigger>>
                          \o (IF tran.dest = NoKey THEN <<" [internal]">> ELSE <<>>)
    IN  IF show_conditions /\ ({"conditions", "unless"} \cap DOMAIN tran) # {}
        THEN edge_label
                 \o <<" [",
                      JoinWith(" & ",
                               GetList(tran, "conditions")
                                   \o [i \in DOMAIN GetList(tran, "unless") |->
                                          "!" \o GetList(tran, "unless")[i]]),
                      "]">>
                 \o (IF tran.dest = NoKey THEN <<" [internal]">> ELSE <<>>)
        ELSE edge_label

\* _transition_label joining the unless-guards without the "!".
_transition_label_unless_unmarked(tran, show_conditions) ==
    LET edge_label == <<IF "label" \in DOMAIN tran THEN tran.label ELSE tran.trigger>>
                          \o (IF tran.dest = NoKey THEN <<" [internal]">> ELSE <<>>)
    IN  IF show_conditions /\ ({"conditions", "unless"} \cap DOMAIN tran) # {}
        THEN edge_label
                 \o <<" [",
                      JoinWith(" & ", GetList(tran, "conditions") \o GetList(tran, "unless")),
                      "]">>
        ELSE edge_label

\* BaseGraph._transition_label.  The label is kept as the list of the pieces it
\* is put together from; Text gives the string.
_transition_label(tran, show_conditions) ==
    LET edge_label == <<IF "label" \in DOMAIN tran THEN tran.label ELSE tran.trigger>>
                          \o (IF tran.dest = NoKey THEN <<" [internal]">> ELSE <<>>)
    IN  IF show_conditions /\ ({"conditions", "unless"} \cap DOMAIN tran) # {}
        THEN edge_label
                 \o <<" [",
                      JoinWith(" & ",
                               GetList(tran, "conditions")
                                   \o [i \in DOMAIN GetList(tran, "unless") |->
                                          "!" \o GetList(tran, "unless")[i]]),
                      "]">>
        ELSE edge_label

Text(pieces) == JoinWith("", pieces)

\* Graph.generate of the backend: a node per state and per endpoint of a
\* transition, an edge per flattened transition with its label.
Graph_generate(mk, show_conditions) ==
    LET el == _get_elements(mk)
    IN  [nodes |-> StateNames(<<>>, el.states) \cup Endpoints(el.transitions),
         edges |-> [i \in DOMAIN el.transitions |->
                       [source |-> el.transitions[i].source,
                        dest |-> el.transitions[i].dest,
                        label |-> _transition_label(el.transitions[i], show_conditions)]],
         err |-> el.err]

\* The transitions declared on the drawn machines: plain, guarded, internal,
\* with a wildcard source, named to_..., with a label of their own.
DrawnPool ==
    {Tran("walk", "A", "B"),
     Put(Tran("sprint", "B", "A"), "conditions", <<"is_fast">>),
     Put(Put(Tran("fail", "A", NoKey), "conditions", <<"failed">>),
         "unless", <<"blocked">>),
     Tran("polled", "*", NoKey),
     Tran("to_end", "*", "B"),
     Tran("to_state_A", "B", "A"),
     Put(Put(Tran("go", "A", "B"), "label", "Go!"), "unless", <<"late", "tired">>)}

\* The states of the drawn machines: flat, and with a composite state that has a
\* default child, a transition between its children and an internal one.
DrawnShapes ==
    {<<Leaf("A"), Leaf("B")>>,
     <<Leaf("A"),
       State("B", <<Leaf("1"), Leaf("2")>>, InitialName("1"),
             <<Tran("in", "1", "2"), Tran("tick", "1", NoKey)>>)>>}

\* The keywords of GraphMachine(...) that decide on the display of generated
\* transitions: each absent, False or True.
DrawnKeywords ==
    UNION {[keys -> BOOLEAN] :
              keys \in SUBSET {"auto_transitions_markup", "show_auto_transitions"}}

InitDraw ==
    /\ markup = FlatMarkup
    /\ attrs = [m \in {} |-> [get_graph |-> "none", state |-> NoState, bound |-> FALSE]]
    /\ state_form = "name"
    /\ models = <<>>
    /\ model_graphs = <<>>
    /\ pc = Idle
    /\ raised = "none"
    /\ fl_in = Root(<<>>, <<>>)
    /\ fl_out = NoElements
    /\ \E sts \in DrawnShapes, auto \in BOOLEAN, kwargs \in DrawnKeywords,
          conds \in BOOLEAN :
          definition = [states |-> sts, transitions |-> <<>>,
                        auto_transitions |-> auto, kwargs |-> kwargs,
                        show_conditions |-> conds]
    /\ drawn = NotDrawn
    /\ constructed = NoMachines

\* One more transition is handed to the machine.
DeclareTransition(t) ==
    /\ Len(definition.transitions) < MaxDrawn
    /\ definition' = [definition EXCEPT !.transitions = Append(@, t)]
    /\ drawn' = NotDrawn
    /\ UNCHANGED <<markup, state_form, models, attrs, model_graphs, pc, raised,
                   fl_in, fl_out, constructed>>

\* The auto_transitions_markup the constructed machine has.
MarkupFlag(def) == GraphMachine_init(def.kwargs).auto_transitions_markup

\* GraphMachine(states, transitions, **kwargs).get_graph().  A keyword that
\* GraphMachine.__init__ has not popped goes to the base class, which takes it
\* or refuses the construction.
Draw(base_accepts) ==
    /\ drawn = NotDrawn
    /\ drawn' =
          IF "show_auto_transitions" \in DOMAIN GraphMachine_init(definition.kwargs)
             /\ ~base_accepts
          THEN [nodes |-> {}, edges |-> <<>>, err |-> "refused"]
          ELSE Graph_generate(get_markup_config(definition, MarkupFlag(definition)),
                              definition.show_conditions)
    /\ UNCHANGED <<markup, state_form, models, attrs, model_graphs, pc, raised,
                   fl_in, fl_out, definition, constructed>>

NextDraw ==
    \/ \E t \in DrawnPool : DeclareTransition(t)
    \/ \E base_accepts \in BOOLEAN : Draw(base_accepts)

SpecDraw == InitDraw /\ [][NextDraw]_vars

(***************************************************************************)
(* The graph attributes of machines constructed one after the other.       *)
(***************************************************************************)
\* dict.update(other)
update(dict, other) ==
    [k \in DOMAIN dict \cup DOMAIN other |-> IF k \in DOMAIN other THEN other[k] ELSE dict[k]]

\* hasattr(self.state_cls, "separator") and hasattr(self, "__enter__"): true of a
\* HierarchicalGraphMachine, false of a GraphMachine.
IsNested(kind) == kind = "hierarchical"

\* _init_graphviz_engine: the Graph class chosen and the dict that
\* self.machine_attributes names once it has run.  Neither GraphMachine.__init__
\* nor HierarchicalGraphMachine binds machine_attributes anew, so the name stands
\* for the dict of the class GraphMachine, attributes here.
_init_graphviz_engine(attributes, kind, use_pygraphviz, pygraphviz) ==
    IF use_pygraphviz /\ pygraphviz
    THEN IF IsNested(kind)
         THEN [graph_cls |-> "diagrams_pygraphviz.NestedGraph",
               machine_attributes |-> update(attributes, hierarchical_machine_attributes)]
         ELSE [graph_cls |-> "diagrams_pygraphviz.Graph", machine_attributes |-> attributes]
    ELSE IF IsNested(kind)
         THEN [graph_cls |-> "diagrams_graphviz.NestedGraph",
               machine_attributes |-> update(attributes, hierarchical_machine_attributes)]
         ELSE [graph_cls |-> "diagrams_graphviz.Graph", machine_attributes |-> attributes]

\* machine.machine_attributes: no machine has the attribute itself, the lookup
\* ends at the class.
AttributesOf(i) == constructed.machine_attributes

\* No graph generated yet for a machine.
NoAttributes == [generated |-> FALSE]

InitAttrs ==
    /\ markup = FlatMarkup
    /\ attrs = [m \in {} |-> [get_graph |-> "none", state |-> NoState, bound |-> FALSE]]
    /\ state_form = "name"
    /\ models = <<>>
    /\ model_graphs = <<>>
    /\ pc = Idle
    /\ raised = "none"
    /\ fl_in = Root(<<>>, <<>>)
    /\ fl_out = NoElements
    /\ definition = NoDefinition
    /\ drawn = NotDrawn
    /\ \E pygraphviz \in BOOLEAN :
          constructed = [NoMachines EXCEPT !.pygraphviz = pygraphviz]

\* GraphMachine(...) or HierarchicalGraphMachine(...), use_pygraphviz given.
Construct(kind, use_pygraphviz) ==
    /\ Len(constructed.machines) < MaxMachines
    /\ LET r == _init_graphviz_engine(constructed.machine_attributes, kind,
                                      use_pygraphviz, constructed.pygraphviz)
       IN  constructed' =
              [constructed EXCEPT
                 !.machine_attributes = r.machine_attributes,
                 !.machines = Append(@, [kind |-> kind, graph_cls |-> r.graph_cls,
                                         graph_attributes |-> NoAttributes])]
    /\ UNCHANGED <<markup, state_form, models, attrs, model_graphs, pc, raised,
                   fl_in, fl_out, definition, drawn>>

\* The i-th machine generates a graph: the backend sets the graph-level
\* attributes from machine.machine_attributes.
Generate(i) ==
    /\ i \in DOMAIN constructed.machines
    /\ constructed' =
          [constructed EXCEPT
             !.machines[i].graph_attributes = Put(AttributesOf(i), "generated", TRUE)]
    /\ UNCHANGED <<markup, state_form, models, attrs, model_graphs, pc, raised,
                   fl_in, fl_out, definition, drawn>>

NextAttrs ==
    \/ \E kind \in {"flat", "hierarchical"}, use_pygraphviz \in BOOLEAN :
          Construct(kind, use_pygraphviz)
    \/ \E i \in 1..MaxMachines : Generate(i)

SpecAttrs == InitAttrs /\ [][NextAttrs]_vars

(***************************************************************************)
(* Properties.                                                             *)
(***************************************************************************)
Registered(model) == id(model) \in DOMAIN model_graphs
InProgress == pc.phase \in {"exit", "enter"}

\* The step is one of the steps of a transition of the model (a trigger starts
\* from idle and leaves the machine's definition alone, which is asked first).
TransitionStep(model) ==
    \/ /\ pc.phase = "idle"
       /\ UNCHANGED <<markup, attrs, models>>
       /\ pc' # pc \/ raised' = "KeyError"
       /\ \E t \in Enabled(model) : trigger(model, t)
    \/ pc.model = model /\ (set_state \/ change_state_end \/ callback_raises)

\* C1: a transition executed on one model leaves the registry entry of every
\* other model as it was: no step of the transition changes the graph, or any
\* style of the overlay, seen through another model's entry.
C1_OtherModelsUntouched ==
    [][\A m \in DOMAIN attrs :
          TransitionStep(m) =>
              \A o \in DOMAIN attrs \ {m} :
                  Registered(o) =>
                      /\ id(o) \in DOMAIN model_graphs'
                      /\ model_graphs'[id(o)] = model_graphs[id(o)]]_vars

\* m1 has gone to B, which is active in its overlay and default in m2's.
C1_Witness ==
    /\ {"m1", "m2"} \subseteq DOMAIN attrs
    /\ Registered("m1") /\ Registered("m2")
    /\ pc.phase = "idle"
    /\ attrs["m1"].state.name = "B"
    /\ attrs["m2"].state.name = "A"
    /\ StyleOf(model_graphs[id("m1")], "B") = "active"
    /\ StyleOf(model_graphs[id("m2")], "B") = ""

\* The overlay between reset_styling + set_previous_transition and the marking
\* of the active states: the edge and its endpoints previous, no node active.
PreviousStyled(g, source, dest) ==
    /\ g.edge_style = {<<source, dest>>}
    /\ StyleOf(g, source) = "previous"
    /\ StyleOf(g, dest) = "previous"
    /\ NodesStyled(g, "active") = {}

C3_NoStaleMarks ==
    pc.phase = "idle" /\ state_form = "name" =>
        \A m \in DOMAIN attrs :
            Registered(m) =>
                LET g == model_graphs[id(m)]
                IN  /\ NodesStyled(g, "active") \subseteq ActiveNames(attrs[m].state)
                    /\ Cardinality(g.edge_style) <= 1
                    /\ \A n \in NodesStyled(g, "previous") :
                          \E e \in g.edge_style : n \in {e[1], e[2]}

\* C4: a model that comes with its own get_graph keeps it and is left untouched
\* by the failed add_model: it is not in machine.models, has no trigger bound and
\* no registry entry.
C4_ConflictLeavesModelUntouched ==
    \A m \in DOMAIN attrs \cap OwnGetGraph :
        /\ attrs[m].get_graph = "own"
        /\ ~InSeq(m, models)
        /\ ~attrs[m].bound
        /\ ~Registered(m)

\* The graph of a model shows the machine as its markup describes it now.
UpToDate(g, mk) ==
    /\ g.states = _get_elements(mk).states
    /\ g.transitions = _get_elements(mk).transitions

AddStep ==
    \/ \E name \in AddableStates, own_raises \in BOOLEAN : add_states(name, own_raises)
    \/ \E source \in AddableSources(markup), dest \in AddableDests(markup),
          own_raises \in BOOLEAN : add_transition(source, dest, own_raises)

\* C5: once add_states or add_transition is over, every model of machine.models
\* that add_model gave a get_graph has a registry entry built from the markup
\* with the addition, so its next query shows the added state or transition.
C5_AddRebuildsEveryModel ==
    [][AddStep =>
          \A i \in DOMAIN models' :
              attrs'[models'[i]].get_graph = "bound" =>
                  /\ id(models'[i]) \in DOMAIN model_graphs'
                  /\ UpToDate(model_graphs'[id(models'[i])], markup')]_vars

\* C6: get_graph(force_new=True) on a model that has a state stores a graph
\* built from the current markup under the model's identity and marks every
\* current state of the model active in it, whatever form the state attribute
\* has.
C6_ForcedBuildMarksActive ==
    [][\A m \in DOMAIN attrs :
          (/\ attrs[m].state.kind # "absent"
           /\ \E show_roi \in BOOLEAN : get_graph(m, TRUE, show_roi)) =>
              /\ id(m) \in DOMAIN model_graphs'
              /\ UpToDate(model_graphs'[id(m)], markup)
              /\ ActiveNames(attrs[m].state)
                     \subseteq NodesStyled(model_graphs'[id(m)], "active")]_vars

\* C7: get_graph without force_new on a model that has a registry entry leaves
\* the registry as it is: the entry is not rebuilt and its overlay keeps every
\* previous and active mark.
C7_QueryKeepsEntry ==
    [][\A m \in DOMAIN attrs :
          (Registered(m) /\ \E show_roi \in BOOLEAN : get_graph(m, FALSE, show_roi)) =>
              model_graphs' = model_graphs]_vars

\* A model between two transitions, its overlay carrying the marks of the last.
C7_Witness ==
    \E m \in DOMAIN attrs :
        /\ Registered(m)
        /\ attrs[m].get_graph = "bound"
        /\ pc.phase = "idle"
        /\ raised = "none"
        /\ model_graphs[id(m)].edge_style # {}
        /\ NodesStyled(model_graphs[id(m)], "active") # {}
        /\ NodesStyled(model_graphs[id(m)], "previous") # {}

\* The node and edge sets of the machine as its markup describes it.
MachineView(mk) ==
    [nodes |-> StateNames(<<>>, mk.states) \cup Endpoints(_get_elements(mk).transitions),
     edges |-> _get_elements(mk).transitions]

\* C8: a get_graph call leaves the registry the same whether show_roi is set or
\* not; a graph it builds reports the complete node and edge sets of the
\* machine; the steps of a transition change only the overlay of the model's
\* graph, not its nodes and edges; and the ROI view is the same whatever marks
\* the overlay carries.
C8_RoiLeavesEntryAlone ==
    [][/\ \A m \in DOMAIN attrs, force_new \in BOOLEAN, show_roi \in BOOLEAN :
             get_graph(m, force_new, show_roi) =>
                 /\ model_graphs' = _get_graph(model_graphs, markup, attrs, m, force_new)
                 /\ Builds(model_graphs, m, force_new) =>
                        FullView(model_graphs'[id(m)]) = MachineView(markup)
                 /\ RoiView(model_graphs'[id(m)], attrs[m].state)
                        = RoiView(reset_styling(model_graphs'[id(m)]), attrs[m].state)
       /\ \A m \in DOMAIN attrs :
             (TransitionStep(m) /\ Registered(m)) =>
                 FullView(model_graphs'[id(m)]) = FullView(model_graphs[id(m)])]_vars

\* A model that has made a transition, whose ROI view is a proper part of the
\* full view of its graph.
C8_Witness ==
    \E m \in DOMAIN attrs :
        /\ Registered(m)
        /\ attrs[m].get_graph = "bound"
        /\ pc.phase = "idle"
        /\ model_graphs[id(m)].edge_style # {}
        /\ FullView(model_graphs[id(m)]) = MachineView(markup)
        /\ Len(_get_graph_return(model_graphs, attrs, m, TRUE).view.edges)
               < Len(_get_graph_return(model_graphs, attrs, m, FALSE).view.edges)

\* The edges of a graph with an endpoint among the states S, in graph order.
EdgesAt(g, S) ==
    SelectSeq(g.transitions,
              LAMBDA t : t.source \in S \/ (t.dest # NoKey /\ t.dest \in S))

C9_IsolatedReached ==
    \E m \in DOMAIN attrs :
        /\ Registered(m)
        /\ attrs[m].state.kind = "name"
        /\ _get_graph_return(model_graphs, attrs, m, TRUE).view
               = [nodes |-> {attrs[m].state.name}, edges |-> <<>>]

\* The scopes of a markup with the path of state names leading to each.
RECURSIVE ScopesOf(_, _)
ScopesOf(prefix, scope) ==
    {[prefix |-> prefix, scope |-> scope]}
        \cup UNION {ScopesOf(prefix \o <<scope.children[i].name>>, scope.children[i]) :
                       i \in DOMAIN scope.children}
        \cup UNION {ScopesOf(prefix \o <<scope.states[i].name>>, scope.states[i]) :
                       i \in DOMAIN scope.states}

\* Every state is named, every nested transition has a source and every
\* initial entry is usable.
WellFormed(mk) ==
    \A sc \in ScopesOf(<<>>, mk) :
        /\ sc.prefix # <<>> => sc.scope.name # NoKey
        /\ sc.scope.initial.kind # "bad"
        /\ sc.prefix # <<>> =>
               \A i \in DOMAIN sc.scope.transitions : sc.scope.transitions[i].source # NoKey

\* The transitions of one scope under the names the graph shows them with.
Qualified(sc) ==
    [i \in DOMAIN sc.scope.transitions |->
        LET t == sc.scope.transitions[i]
        IN  IF sc.prefix = <<>> THEN t
            ELSE Tran(t.trigger,
                      Join(sc.prefix \o <<t.source>>),
                      IF t.dest = NoKey THEN NoKey ELSE Join(sc.prefix \o <<t.dest>>))]

\* s occurs in t as a run of consecutive entries.
IsSegment(s, t) ==
    \E i \in 0..(Len(t) - Len(s)) : SubSeq(t, i + 1, i + Len(s)) = s

Occurrences(seq, x) == Cardinality({i \in DOMAIN seq : seq[i] = x})

\* The number of entries of seq from source to dest.
EdgesBetween(seq, source, dest) ==
    Cardinality({i \in DOMAIN seq : seq[i].source = source /\ seq[i].dest = dest})

\* The transitions of a flattened list that are no anchors.
Declared(trs) == SelectSeq(trs, LAMBDA t : t.trigger # "")

\* C10: the flattened list of a well-formed markup holds one entry for every
\* declared transition and no more: the transitions of each scope appear in
\* their declaration order as consecutive entries (those of the root first),
\* each as often as it was declared, so n transitions between the same source
\* and dest stay n entries.
C10_EveryTransitionItsOwnEdge ==
    (WellFormed(fl_in) /\ fl_out # NoElements) =>
        /\ fl_out.err = "none"
        /\ SubSeq(fl_out.transitions, 1, Len(fl_in.transitions)) = fl_in.transitions
        /\ \A sc \in ScopesOf(<<>>, fl_in) :
              /\ IsSegment(Qualified(sc), fl_out.transitions)
              /\ \A i \in DOMAIN sc.scope.transitions :
                    LET q == Qualified(sc)[i]
                    IN  EdgesBetween(Declared(fl_out.transitions), q.source, q.dest)
                            = EdgesBetween(Qualified(sc), q.source, q.dest)
        /\ \A i \in DOMAIN fl_out.transitions :
              fl_out.transitions[i].trigger # "" =>
                  \E sc \in ScopesOf(<<>>, fl_in) :
                      Occurrences(Qualified(sc), fl_out.transitions[i])
                          = Occurrences(fl_out.transitions, fl_out.transitions[i])

\* Four transitions from a to b with four triggers, flattened into four entries
\* from a to b, next to two transitions between the same children of a.
C10_Witness ==
    /\ fl_out.err = "none"
    /\ fl_in.transitions = <<Tran("e1", "a", "b"), Tran("e2", "a", "b"),
                             Tran("e3", "a", "b"), Tran("e4", "a", "b")>>
    /\ EdgesBetween(fl_out.transitions, "a", "b") = 4
    /\ EdgesBetween(fl_out.transitions, "a_1", "a_2") = 2

\* The states of a drawn machine with the path of names leading to each.
DrawnStates(def) ==
    {sc \in ScopesOf(<<>>, Root(def.states, <<>>)) : sc.prefix # <<>>}

\* The states that declare a default child to enter.
AnchoredStates(def) ==
    {sc \in DrawnStates(def) : sc.scope.initial.kind \in {"name", "obj"}}

\* The number of transitions declared on a machine, a wildcard source counting
\* once per state.
DeclaredCount(def) ==
    Cardinality({<<i, k>> \in (DOMAIN def.transitions) \X (1..Cardinality(DrawnStates(def))) :
                    k = 1 \/ def.transitions[i].source = "*"})
        + Cardinality(UNION {{<<sc.prefix, i>> : i \in DOMAIN sc.scope.transitions} :
                                sc \in DrawnStates(def)})

\* The names of the triggers of a machine.
MachineTriggers(def) ==
    {def.transitions[i].trigger : i \in DOMAIN def.transitions}
        \cup UNION {{sc.scope.transitions[i].trigger : i \in DOMAIN sc.scope.transitions} :
                       sc \in DrawnStates(def)}
        \cup (IF def.auto_transitions
              THEN {"to_" \o Join(sc.prefix) : sc \in DrawnStates(def)} ELSE {})

\* The labels given to transitions in place of their trigger.
OverrideLabels(def) ==
    {def.transitions[i].label :
        i \in {j \in DOMAIN def.transitions : "label" \in DOMAIN def.transitions[j]}}

\* The graph of the machine has been generated with the display of generated
\* transitions disabled.
DrawnWithoutAuto == drawn.err = "none" /\ ~MarkupFlag(definition)

DisplayAsked(def) ==
    \/ "auto_transitions_markup" \in DOMAIN def.kwargs /\ def.kwargs.auto_transitions_markup
    \/ "show_auto_transitions" \in DOMAIN def.kwargs /\ def.kwargs.show_auto_transitions

\* The edges of the drawn graph from source to dest whose label is text.
EdgesLabelled(text, source, dest) ==
    {i \in DOMAIN drawn.edges :
        /\ Text(drawn.edges[i].label) = text
        /\ drawn.edges[i].source = source
        /\ drawn.edges[i].dest = dest}

\* The sources a declared transition stands for.
SourcesOf(def, t) ==
    IF t.source = "*" THEN {Join(sc.prefix) : sc \in DrawnStates(def)} ELSE {t.source}

\* The names of the states of a drawn machine.
DrawnStateNames(def) == {Join(sc.prefix) : sc \in DrawnStates(def)}

C12_DefaultReached ==
    /\ drawn.err = "none"
    /\ definition.kwargs = <<>>
    /\ definition.auto_transitions
    /\ definition.transitions = <<Tran("to_state_A", "B", "A"), Tran("to_end", "*", "B")>>
    /\ [i \in DOMAIN drawn.edges |-> Text(drawn.edges[i].label)]
           = <<"to_state_A", "to_end", "to_end">>

\* The number of internal transitions declared on a machine, a wildcard source
\* counting once per state.
InternalCount(def) ==
    Cardinality({<<i, k>> \in (DOMAIN def.transitions) \X (1..Cardinality(DrawnStates(def))) :
                    /\ def.transitions[i].dest = NoKey
                    /\ (k = 1 \/ def.transitions[i].source = "*")})
        + Cardinality(UNION {{<<sc.prefix, i>> :
                                 i \in {j \in DOMAIN sc.scope.transitions :
                                           sc.scope.transitions[j].dest = NoKey}} :
                                sc \in DrawnStates(def)})

StatesOf(mk) == {sc \in ScopesOf(<<>>, mk) : sc.prefix # <<>>}

\* The entries of a flattened list that leave the anchor of the state at path.
AnchorsOf(trs, path) ==
    {i \in DOMAIN trs : trs[i].trigger = "" /\ trs[i].source = Join(path) \o "_anchor"}

RECURSIVE RepairState(_, _)
RepairState(st, nested) ==
    [name |-> IF st.name = NoKey THEN "n" ELSE st.name,
     children |-> [i \in DOMAIN st.children |-> RepairState(st.children[i], TRUE)],
     states |-> [i \in DOMAIN st.states |-> RepairState(st.states[i], TRUE)],
     initial |-> IF st.initial.kind = "bad" THEN NoInitial ELSE st.initial,
     transitions |-> [i \in DOMAIN st.transitions |->
                         IF nested /\ st.transitions[i].source = NoKey
                         THEN [st.transitions[i] EXCEPT !.source = "s"]
                         ELSE st.transitions[i]]]

Repaired(mk) == [RepairState(mk, FALSE) EXCEPT !.name = mk.name]

IsPrefix(s, t) == Len(s) <= Len(t) /\ SubSeq(t, 1, Len(s)) = s

\* C15 as stated: a malformed markup never makes the flattening fail; what was
\* collected before the defect is returned, a prefix of what the walk of the
\* mended markup collects.
C15_MalformedYieldsPartial ==
    (fl_out # NoElements /\ ~WellFormed(fl_in)) =>
        LET full == _get_elements(Repaired(fl_in))
        IN  /\ fl_out.err # "TypeError"
            /\ IsPrefix(fl_out.transitions, full.transitions)
            /\ IsPrefix([i \in DOMAIN fl_out.states |->
                            RepairState(fl_out.states[i], TRUE)], full.states)

\* A nested transition without source, or a state without name, cuts the walk
\* short and the partial lists are returned.
C15_PartialReached ==
    /\ fl_out # NoElements
    /\ fl_out.err = "KeyError"
    /\ Len(fl_out.states) > 0

\* An unusable initial makes the flattening fail.
C15_FailureReached ==
    /\ fl_out # NoElements
    /\ fl_out.err = "TypeError"

\* C20: in the flattened list of a well-formed markup a transition declared in
\* the scope at path p appears with source "p_source" and dest "p_dest", an
\* internal one (no dest) with source "p_source" and still no dest; the
\* transitions of the root appear as declared; and every entry that is no
\* anchor is such an image of a declared transition, the internal entries
\* being as many as the internal transitions declared.
C20_NestedNamesPrefixed ==
    (WellFormed(fl_in) /\ fl_out # NoElements) =>
        LET out == fl_out.transitions
            \* entry j is the image of transition t declared at path p
            Image(j, p, t) ==
                /\ out[j].trigger = t.trigger
                /\ out[j].source = IF p = <<>> THEN t.source
                                   ELSE Join(p) \o separator \o t.source
                /\ out[j].dest = IF t.dest = NoKey \/ p = <<>> THEN t.dest
                                 ELSE Join(p) \o separator \o t.dest
            scopes == ScopesOf(<<>>, fl_in)
        IN  /\ \A sc \in scopes : \A i \in DOMAIN sc.scope.transitions :
                  \E j \in DOMAIN out : Image(j, sc.prefix, sc.scope.transitions[i])
            /\ \A j \in DOMAIN out :
                  out[j].trigger # "" =>
                      \E sc \in scopes : \E i \in DOMAIN sc.scope.transitions :
                          Image(j, sc.prefix, sc.scope.transitions[i])
            /\ Cardinality({j \in DOMAIN out : out[j].dest = NoKey})
                   = Cardinality({<<sc, i>> \in scopes \X (1..4) :
                                     /\ i \in DOMAIN sc.scope.transitions
                                     /\ sc.scope.transitions[i].dest = NoKey})

\* A transition between two states two levels down, an internal transition one
\* level down and a transition of the root, flattened.
C20_Witness ==
    /\ WellFormed(fl_in)
    /\ fl_out # NoElements
    /\ Len(fl_in.transitions) > 0
    /\ \E j \in DOMAIN fl_out.transitions :
          /\ fl_out.transitions[j].source = "a_1_x"
          /\ fl_out.transitions[j].dest = "a_1_y"
    /\ \E j \in DOMAIN fl_out.transitions :
          /\ fl_out.transitions[j].source = "a_1"
          /\ fl_out.transitions[j].dest = NoKey
    /\ \E j \in DOMAIN fl_out.transitions :
          fl_out.transitions[j] = fl_in.transitions[1]

\* C16: get_graph on a model whose state attribute cannot be read returns a
\* graph whatever force_new and show_roi are: no error reaches the caller, the
\* model has a registry entry afterwards and no node of it is marked active.
C16_StatelessStillGetsGraph ==
    [][\A m \in DOMAIN attrs, force_new \in BOOLEAN, show_roi \in BOOLEAN :
          (attrs[m].state.kind = "absent" /\ get_graph(m, force_new, show_roi)) =>
              /\ raised' = "none"
              /\ id(m) \in DOMAIN model_graphs'
              /\ NodesStyled(model_graphs'[id(m)], "active") = {}]_vars

\* A model without readable state has its graph, unmarked, in the registry.
C16_EntryReached ==
    \E m \in DOMAIN attrs :
        /\ attrs[m].get_graph = "bound"
        /\ attrs[m].state.kind = "absent"
        /\ Registered(m)
        /\ NodesStyled(model_graphs[id(m)], "active") = {}
        /\ raised = "none"

\* get_graph(show_roi=True) on that model ended with an AttributeError.
C16_FailureReached ==
    \E m \in DOMAIN attrs :
        /\ attrs[m].get_graph = "bound"
        /\ attrs[m].state.kind = "absent"
        /\ raised = "AttributeError"

\* C17: the snapshot of the machine has no registry in it, and restoring the
\* machine from its snapshot leaves a registry with one entry for every model
\* of the restored machine and no other: each entry is built from the markup,
\* carries no mark of a transition made before the snapshot and no active mark
\* but of the model's current states.
C17_RegistryRebuiltNotRestored ==
    [][/\ "model_graphs" \notin DOMAIN __getstate__(MachineDict)
       /\ DOMAIN __getstate__(MachineDict) = DOMAIN MachineDict \ {"model_graphs"}
       /\ unpickle =>
             /\ DOMAIN model_graphs' = {id(models'[i]) : i \in DOMAIN models'}
             /\ \A k \in DOMAIN model_graphs' :
                   LET g == model_graphs'[k]
                   IN  /\ UpToDate(g, markup')
                       /\ g.edge_style = {}
                       /\ NodesStyled(g, "previous") = {}
                       /\ NodesStyled(g, "active") \subseteq ActiveNames(attrs'[k].state)
             /\ models' = models /\ markup' = markup]_vars

\* A restored machine: the model that came with its own get_graph, which has no
\* entry unless the machine was restored, has one, as has the other model of the
\* machine; both entries show the model's state and no transition.
C17_Witness ==
    /\ pc.phase = "idle"
    /\ raised = "none"
    /\ models = <<"g", "m1">>
    /\ DOMAIN model_graphs = {id("g"), id("m1")}
    /\ \A k \in DOMAIN model_graphs :
          /\ model_graphs[k].edge_style = {}
          /\ NodesStyled(model_graphs[k], "active") = {attrs[k].state.name}

\* What model.get_graph(force_new=True) shows: all nodes and edges of a graph
\* built from the markup mk.
Rebuilt(graphs, mk, model) ==
    FullView(_get_graph(graphs, mk, attrs, model, TRUE)[id(model)])

\* seq without its i-th entry.
Without(seq, i) == SubSeq(seq, 1, i - 1) \o SubSeq(seq, i + 1, Len(seq))

\* post shows what pre shows and the state or transition by which the markup
\* after differs from the markup before, once, and nothing else.
OneMore(pre, post, before, after) ==
    \/ /\ Len(after.states) = Len(before.states) + 1
       /\ LET new == after.states[Len(after.states)].name
          IN  /\ new \notin pre.nodes
              /\ post.nodes = pre.nodes \cup {new}
              /\ post.edges = pre.edges
    \/ /\ Len(after.transitions) = Len(before.transitions) + 1
       /\ LET new == after.transitions[Len(after.transitions)]
          IN  /\ post.nodes = pre.nodes
              /\ Occurrences(pre.edges, new) = 0
              /\ Occurrences(post.edges, new) = 1
              /\ \E i \in DOMAIN post.edges :
                    post.edges[i] = new /\ Without(post.edges, i) = pre.edges

\* C18: for every model with the machine's get_graph, the graph a forced
\* rebuild gives after add_states or add_transition has the nodes and edges of
\* the graph a forced rebuild gave before, the edges in their order, and the
\* added state as one more node or the added transition as one more edge,
\* present once; and when the addition went through, the graphs it left in the
\* registry for the machine's models are these.
C18_RebuildShowsAddition ==
    [][AddStep =>
          \A m \in DOMAIN attrs :
              attrs[m].get_graph = "bound" =>
                  LET pre == Rebuilt(model_graphs, markup, m)
                      post == Rebuilt(model_graphs', markup', m)
                  IN  /\ OneMore(pre, post, markup, markup')
                      /\ (raised' = "none" /\ InSeq(m, models)) =>
                             FullView(model_graphs'[id(m)]) = post]_vars

\* The hierarchical machine after add_transition: the new edge from A to P is
\* in the model's graph once, before the edges of the nested transitions.
C18_Witness ==
    \E m \in DOMAIN attrs :
        /\ Registered(m)
        /\ attrs[m].get_graph = "bound"
        /\ raised = "none"
        /\ markup.transitions[Len(markup.transitions)] = Tran("e1", "A", "P")
        /\ LET edges == model_graphs[id(m)].transitions
           IN  /\ Occurrences(edges, Tran("e1", "A", "P")) = 1
               /\ edges[Len(edges)] # Tran("e1", "A", "P")
               /\ Len(edges) = Len(_get_elements(NestedMarkup).transitions) + 1

\* The model's state attribute is a list of states, nested or not.
InParallel(value) == value.kind = "list"

\* C19: for a model in the regions of a parallel state, when a transition into
\* them has completed (no callback of it having replaced the model's graph) and
\* after get_graph(force_new=True), the nodes marked active in the model's
\* graph are exactly the leaves of its state attribute, each under its name.
C19_ParallelLeavesActive ==
    [][/\ (change_state_end /\ ~pc.replaced /\ InParallel(attrs[pc.model].state)) =>
             NodesStyled(model_graphs'[id(pc.model)], "active")
                 = ActiveNames(attrs[pc.model].state)
       /\ \A m \in DOMAIN attrs :
             (/\ InParallel(attrs[m].state)
              /\ \E show_roi \in BOOLEAN : get_graph(m, TRUE, show_roi)) =>
                 NodesStyled(model_graphs'[id(m)], "active")
                     = ActiveNames(attrs[m].state)]_vars

\* A model with states given by name, in the three regions of P after the
\* transition fork, each leaf marked active.
C19_NamedLeavesReached ==
    \E m \in DOMAIN attrs :
        /\ state_form = "name"
        /\ pc.phase = "idle"
        /\ Registered(m)
        /\ ActiveNames(attrs[m].state) = {"P_x_1", "P_x_2", "P_y"}
        /\ NodesStyled(model_graphs[id(m)], "active") = {"P_x_1", "P_x_2", "P_y"}
        /\ model_graphs[id(m)].edge_style # {}

\* A model with states given as objects, in the three regions of P after the
\* transition fork: P is marked active, no leaf is.
C19_DestMarkedReached ==
    \E m \in DOMAIN attrs :
        /\ state_form = "obj"
        /\ pc.phase = "idle"
        /\ Registered(m)
        /\ ActiveNames(attrs[m].state) = {"P_x_1", "P_x_2", "P_y"}
        /\ NodesStyled(model_graphs[id(m)], "active") = {"P"}

\* The transitions of the drawn machine as the graph is generated from them.
DrawnTransitions ==
    _get_elements(get_markup_config(definition, MarkupFlag(definition))).transitions

\* The label the declared transitions are to have, the condition expressions
\* written out.
ExpectedLabel(t, show_conditions) ==
    (IF "label" \in DOMAIN t THEN t.label ELSE t.trigger)
        \o (IF t.dest = NoKey THEN " [internal]" ELSE "")
        \o (IF ~show_conditions THEN ""
            ELSE CASE t.trigger = "sprint" -> " [is_fast]"
                   [] t.trigger = "fail" -> " [failed & !blocked]"
                   [] t.trigger = "go" -> " [!late & !tired]"
                   [] OTHER -> "")

\* C21: the label of every edge is the override label or else the trigger of
\* its transition, then " [internal]" if the transition has no dest, then, if
\* conditions are displayed and the transition has conditions or unless-guards,
\* " [c1 & c2 & !u1]"; no bracketed conditions follow when conditions are not
\* displayed or the transition has none.
C21_EdgeLabel ==
    drawn.err = "none" =>
        /\ Len(drawn.edges) = Len(DrawnTransitions)
        /\ \A i \in DOMAIN drawn.edges :
              LET t == DrawnTransitions[i]
                  label == drawn.edges[i].label
                  guarded == ({"conditions", "unless"} \cap DOMAIN t) # {}
              IN  /\ Text(label) = ExpectedLabel(t, definition.show_conditions)
                  /\ (definition.show_conditions /\ guarded) <=> (label[Len(label)] = "]")
                  /\ ~(definition.show_conditions /\ guarded) =>
                         Len(label) = IF t.dest = NoKey THEN 2 ELSE 1

\* A machine drawn with its conditions: the guarded internal transition and the
\* one with a label of its own and two unless-guards.
C21_Witness ==
    /\ drawn.err = "none"
    /\ definition.show_conditions
    /\ \E i \in DOMAIN drawn.edges :
          Text(drawn.edges[i].label) = "fail [internal] [failed & !blocked]"
    /\ \E i \in DOMAIN drawn.edges :
          Text(drawn.edges[i].label) = "Go! [!late & !tired]"

\* The same machine drawn without its conditions.
C21_PlainReached ==
    /\ drawn.err = "none"
    /\ ~definition.show_conditions
    /\ \E i \in DOMAIN drawn.edges : Text(drawn.edges[i].label) = "fail [internal]"
    /\ \E i \in DOMAIN drawn.edges : Text(drawn.edges[i].label) = "Go!"

\* C22: _get_elements leaves the markup as it found it, the source and dest of
\* the nested transitions included, so that flattening it again gives the same
\* states and transitions, no name prefixed a second time.
C22_FlatteningIsPure ==
    [][Flatten =>
          /\ fl_in' = fl_in
          /\ _get_elements(fl_in') = fl_out']_vars

\* The doubly nested markup flattened: the list has a_1_x -> a_1_y while the
\* markup still declares x -> y in the scope a/1.
C22_Witness ==
    /\ fl_out # NoElements
    /\ fl_out.err = "none"
    /\ \E j \in DOMAIN fl_out.transitions :
          fl_out.transitions[j] = Tran("in1", "a_1_x", "a_1_y")
    /\ \E sc \in ScopesOf(<<>>, fl_in) :
          /\ sc.prefix = <<"a", "1">>
          /\ sc.scope.transitions[1] = Tran("in1", "x", "y")

\* C23: when a model of machine.models executes a transition, the model has an
\* entry in the registry and the lookup that _change_state begins with does not
\* fail, whatever add_model calls went before.
C23_LookupNeverFails ==
    [][\A m \in DOMAIN attrs :
          (/\ InSeq(m, models)
           /\ pc.phase = "idle"
           /\ UNCHANGED <<markup, attrs, models>>
           /\ \E t \in Enabled(m) : trigger(m, t)) =>
              /\ Registered(m)
              /\ raised' # "KeyError"]_vars

\* A model handed to add_model after one with a get_graph of its own: it is in
\* machine.models with the triggers bound, has no entry, and its trigger has
\* ended with the KeyError of the lookup.
C23_FailureReached ==
    /\ raised = "KeyError"
    /\ "m1" \in DOMAIN attrs
    /\ InSeq("m1", models)
    /\ attrs["m1"].bound
    /\ attrs["m1"].get_graph = "none"
    /\ ~Registered("m1")

\* C24: when a callback of the transition has replaced the model's registry
\* entry, the entry that is in the registry once the transition has completed
\* has the model's current states marked active and shows the edge of the
\* transition as previous.
C24_ReplacedEntryShowsTransition ==
    [][(change_state_end /\ pc.replaced) =>
          LET g == model_graphs'[id(pc.model)]
          IN  /\ ActiveNames(attrs[pc.model].state) \subseteq NodesStyled(g, "active")
              /\ <<pc.source, pc.dest>> \in g.edge_style]_vars

\* A transition of a model with plain state names, completed after a callback
\* of its exit had replaced the graph: the entry has the state entered marked
\* active, next to the state left, and no edge marked.
C24_ActiveOnlyReached ==
    \E m \in DOMAIN attrs :
        /\ state_form = "name"
        /\ pc.phase = "idle"
        /\ raised = "none"
        /\ Registered(m)
        /\ attrs[m].state.kind = "name"
        /\ attrs[m].state.name \in NodesStyled(model_graphs[id(m)], "active")
        /\ Cardinality(NodesStyled(model_graphs[id(m)], "active")) = 2
        /\ model_graphs[id(m)].edge_style = {}

\* C25: when a callback of the state change raises, the overlay of the model's
\* graph is as it was before the trigger: the model's current states are marked
\* active and neither the edge nor a node carries the previous mark of the
\* transition that failed.
C25_FailedTransitionLeavesNoMark ==
    [][callback_raises =>
          LET g == model_graphs'[id(pc.model)]
          IN  /\ ActiveNames(attrs'[pc.model].state) \subseteq NodesStyled(g, "active")
              /\ <<pc.source, pc.dest>> \notin g.edge_style
              /\ {pc.source, pc.dest} \cap NodesStyled(g, "previous") = {}]_vars

\* The exit callback of A has raised: the model is still in A, which is marked
\* previous as is the edge to B, and no node is active.
C25_MarksLeftReached ==
    \E m \in DOMAIN attrs :
        /\ pc.phase = "idle"
        /\ raised = "Exception"
        /\ Registered(m)
        /\ attrs[m].state = SName("A")
        /\ model_graphs[id(m)].edge_style = {<<"A", "B">>}
        /\ StyleOf(model_graphs[id(m)], "A") = "previous"
        /\ NodesStyled(model_graphs[id(m)], "active") = {}

\* The graph-level attributes a flat machine is to draw its graphs with.
FlatAttributes == [directed |-> "true", strict |-> "false", rankdir |-> "LR"]

\* C26: whatever machines were constructed before or after it, a flat machine
\* has the graph attributes directed, not strict, rankdir LR and no other, and
\* every graph it generates is drawn with them.
C26_AttributesIsolated ==
    \A i \in DOMAIN constructed.machines :
        constructed.machines[i].kind = "flat" =>
            /\ AttributesOf(i) = FlatAttributes
            /\ constructed.machines[i].graph_attributes
                   \in {NoAttributes, Put(FlatAttributes, "generated", TRUE)}

\* A flat machine constructed before a hierarchical one has drawn a graph from
\* top to bottom with the attributes of a compound graph.
C26_SharedReached ==
    /\ Len(constructed.machines) >= 2
    /\ constructed.machines[1].kind = "flat"
    /\ constructed.machines[2].kind = "hierarchical"
    /\ constructed.machines[1].graph_attributes.generated
    /\ constructed.machines[1].graph_attributes.rankdir = "TB"
    /\ "compound" \in DOMAIN constructed.machines[1].graph_attributes

\* Flat machines alone keep the attributes of the class body.
C26_FlatOnlyReached ==
    /\ Len(constructed.machines) >= 2
    /\ \A i \in DOMAIN constructed.machines :
          /\ constructed.machines[i].kind = "flat"
          /\ constructed.machines[i].graph_attributes = Put(FlatAttributes, "generated", TRUE)

====
